---------------------------- MODULE Spec2Model ----------------------------
(***************************************************************************)
(* The PWA development server of src/server.py: SPAHandler (a              *)
(* SimpleHTTPRequestHandler whose do_GET falls back to /index.html and     *)
(* whose end_headers adds the service-worker and manifest headers) and     *)
(* run_server (a TCPServer serving until KeyboardInterrupt).               *)
(*                                                                         *)
(* A request target, self.path and every filesystem path string is a       *)
(* sequence of tokens: "/" is the separator character, "%2F" and "%2E%2E"  *)
(* are the percent-encodings of "/" and "..", "?" and ";" start the query  *)
(* and the parameters, and every other token is a run of ordinary          *)
(* characters (a name).  The standard-library calls the handler makes      *)
(* (urlparse, unquote, os.path.join, os.path.exists, translate_path,       *)
(* send_head, serve_forever, shutdown) are modelled at the call site by    *)
(* what CPython 3.11 does there.                                           *)
(***************************************************************************)
EXTENDS Naturals, Sequences, FiniteSets

(***************************************************************************)
(* Bounds of the model.                                                    *)
(***************************************************************************)
\* the longest request path, in segments
MaxSegs == 3
\* the longest request path of the requests replayed in Spec
HistSegs == 1

(***************************************************************************)
(* Program constants.                                                      *)
(***************************************************************************)
PORT == 8000

(***************************************************************************)
(* Tokens and strings.                                                     *)
(***************************************************************************)
Sep == "/"
EncSep == "%2F"
Par == ".."
EncPar == "%2E%2E"
Qm == "?"
Semi == ";"

Last(s) == s[Len(s)]
Front(s) == SubSeq(s, 1, Len(s) - 1)
Range(s) == {s[i] : i \in 1..Len(s)}

\* str.startswith / str.endswith on token strings
StartsWith(s, p) == Len(s) >= Len(p) /\ SubSeq(s, 1, Len(p)) = p
EndsWith(s, p) == Len(s) >= Len(p) /\ SubSeq(s, Len(s) - Len(p) + 1, Len(s)) = p

\* str.find(tok, from): the first index >= from holding tok, 0 when none
RECURSIVE Find(_, _, _)
Find(s, tok, from) ==
    IF from > Len(s) THEN 0
    ELSE IF s[from] = tok THEN from
    ELSE Find(s, tok, from + 1)

\* str.rfind(tok): the last index holding tok, 0 when none
RECURSIVE RFind(_, _, _)
RFind(s, tok, upto) ==
    IF upto = 0 THEN 0
    ELSE IF s[upto] = tok THEN upto
    ELSE RFind(s, tok, upto - 1)

\* str.split(sep): the components between separators, empty ones included
RECURSIVE Split(_)
Split(s) ==
    LET i == Find(s, Sep, 1) IN
    IF i = 0 THEN <<s>>
    ELSE <<SubSeq(s, 1, i - 1)>> \o Split(SubSeq(s, i + 1, Len(s)))

\* "/".join(comps)
RECURSIVE Join(_)
Join(comps) ==
    IF comps = <<>> THEN <<>>
    ELSE IF Len(comps) = 1 THEN comps[1]
    ELSE comps[1] \o <<Sep>> \o Join(Tail(comps))

\* str.lstrip("/")
RECURSIVE LStripSep(_)
LStripSep(s) == IF s # <<>> /\ s[1] = Sep THEN LStripSep(Tail(s)) ELSE s

(***************************************************************************)
(* The filesystem the server runs on.  The document root is the working    *)
(* directory /srv/root; /srv/secret lies outside it.  An entry is the      *)
(* sequence of names from "/".                                             *)
(***************************************************************************)
Cwd == <<"srv", "root">>
CwdString == <<Sep, "srv", Sep, "root">>

Dirs == { <<>>, <<"srv">>, Cwd, Cwd \o <<"docs">>, Cwd \o <<"img">> }
Files == { <<"srv", "secret">>,
           Cwd \o <<"index.html">>, Cwd \o <<"sw.js">>, Cwd \o <<"manifest.json">>,
           Cwd \o <<"docs", "index.html">> }

NoEnt == <<"ENOENT">>

UnderRoot(entry) == Len(entry) > Len(Cwd) /\ SubSeq(entry, 1, Len(Cwd)) = Cwd

\* The kernel's walk of an absolute path string, from the entry cur: an
\* empty component is skipped, ".." goes to the parent (the root is its own
\* parent), a name must be an entry of the directory reached so far.
RECURSIVE Walk(_, _)
Walk(cur, comps) ==
    IF comps = <<>> THEN cur
    ELSE LET c == Head(comps) IN
         IF c = <<>> THEN Walk(cur, Tail(comps))
         ELSE IF cur \notin Dirs THEN NoEnt
         ELSE IF c = <<Par>>
              THEN Walk(IF cur = <<>> THEN cur ELSE Front(cur), Tail(comps))
         ELSE IF Len(c) = 1 /\ (cur \o c) \in (Dirs \cup Files)
              THEN Walk(cur \o c, Tail(comps))
         ELSE NoEnt

\* stat(2) of a path string: the entry it names, NoEnt when it names none.
\* A relative string is walked from the working directory; a trailing
\* separator demands a directory.
StatOf(p, e) ==
    IF p = <<>> THEN NoEnt
    ELSE IF Last(p) = Sep /\ e \notin Dirs THEN NoEnt
    ELSE e
Stat(p) ==
    StatOf(p, Walk(IF p # <<>> /\ p[1] = Sep THEN <<>> ELSE Cwd, Split(p)))

\* os.path.exists, os.path.isfile, os.path.isdir, of the result of stat
exists(st) == st # NoEnt
isfile(st) == st \in Files
isdir(st) == st \in Dirs

\* os.path.join(a, b) on POSIX: an absolute b discards a
PathJoin(a, b) ==
    IF b # <<>> /\ b[1] = Sep THEN b
    ELSE IF a = <<>> \/ Last(a) = Sep THEN a \o b
    ELSE a \o <<Sep>> \o b

(***************************************************************************)
(* urllib.parse as do_GET and send_head use it.                            *)
(***************************************************************************)
SchemeTokens == {"http:"}
\* a network location with "[" and no "]": urlsplit raises ValueError
BadNetlocs == {"[::1"}

\* urllib.parse.unquote: every percent-escape is replaced by its character
Unquote(s) ==
    [i \in 1..Len(s) |-> IF s[i] = EncSep THEN Sep
                         ELSE IF s[i] = EncPar THEN Par
                         ELSE s[i]]

\* s[:i-1] when i is an index, s when i is 0 (str.find found nothing)
CutAt(s, i) == IF i = 0 THEN s ELSE SubSeq(s, 1, i - 1)

\* url.split("?", 1)[0]
BeforeQuery(url) == CutAt(url, Find(url, Qm, 1))

\* urlsplit, step 1: a leading scheme is split off
AfterScheme(url) ==
    IF url # <<>> /\ url[1] \in SchemeTokens THEN Tail(url) ELSE url

\* urlsplit, step 2 (_splitnetloc): after "//" the network location runs to
\* the next "/" or "?"; the index at which the rest starts
FirstOf(a, b, none) ==
    IF a = 0 /\ b = 0 THEN none
    ELSE IF a = 0 THEN b
    ELSE IF b = 0 THEN a
    ELSE IF a < b THEN a ELSE b
RestStart(u) ==
    IF StartsWith(u, <<Sep, Sep>>)
    THEN FirstOf(Find(u, Sep, 3), Find(u, Qm, 3), Len(u) + 1)
    ELSE 1
NetlocIn(u, e) == IF e = 1 THEN <<>> ELSE SubSeq(u, 3, e - 1)
NetlocOf(u) == NetlocIn(u, RestStart(u))
RestOf(u) == SubSeq(u, RestStart(u), Len(u))

Netloc(url) == NetlocOf(AfterScheme(url))
AfterNetloc(url) == RestOf(AfterScheme(url))

\* urlsplit raises ValueError("Invalid IPv6 URL")
UrlsplitRaises(url) == Range(Netloc(url)) \cap BadNetlocs # {}

\* urlsplit(url).path: what is left up to the query
UrlsplitPath(url) == BeforeQuery(AfterNetloc(url))

\* _splitparams: the parameters of the last segment are split off
SplitParams(u) == CutAt(u, Find(u, Semi, RFind(u, Sep, Len(u)) + 1))

\* urlparse(url).path
UrlparsePath(url) == SplitParams(UrlsplitPath(url))

(***************************************************************************)
(* SimpleHTTPRequestHandler.translate_path, which the delegated            *)
(* super().do_GET() applies to self.path.                                  *)
(***************************************************************************)
Cur == "."

\* the components posixpath.normpath keeps
RECURSIVE NormComps(_, _, _)
NormComps(comps, new, rooted) ==
    IF comps = <<>> THEN new
    ELSE IF Head(comps) = <<>> \/ Head(comps) = <<Cur>>
         THEN NormComps(Tail(comps), new, rooted)
    ELSE IF Head(comps) # <<Par>> \/ (~rooted /\ new = <<>>)
            \/ (new # <<>> /\ Last(new) = <<Par>>)
         THEN NormComps(Tail(comps), Append(new, Head(comps)), rooted)
    ELSE IF new # <<>> THEN NormComps(Tail(comps), Front(new), rooted)
    ELSE NormComps(Tail(comps), new, rooted)

\* posixpath.normpath: one leading "/" is kept, and exactly two are
InitialSlashes(p) ==
    IF ~StartsWith(p, <<Sep>>) THEN <<>>
    ELSE IF StartsWith(p, <<Sep, Sep>>) /\ ~StartsWith(p, <<Sep, Sep, Sep>>)
         THEN <<Sep, Sep>>
    ELSE <<Sep>>
OrCur(p) == IF p = <<>> THEN <<Cur>> ELSE p
Normpath(p) ==
    OrCur(InitialSlashes(p) \o Join(NormComps(Split(p), <<>>, StartsWith(p, <<Sep>>))))

\* translate_path's loop: the words joined to the directory served, those
\* that are empty, "." or ".." left out
RECURSIVE JoinWords(_, _)
JoinWords(dir, words) ==
    IF words = <<>> THEN dir
    ELSE IF Head(words) \in {<<>>, <<Cur>>, <<Par>>} THEN JoinWords(dir, Tail(words))
    ELSE JoinWords(PathJoin(dir, Head(words)), Tail(words))

WithTrailingSlash(p, trailing_slash) ==
    IF trailing_slash THEN p \o <<Sep>> ELSE p

TranslateNoQuery(p) ==
    WithTrailingSlash(JoinWords(CwdString, Split(Normpath(Unquote(p)))),
                      p # <<>> /\ Last(p) = Sep)

\* translate_path gone wrong: the decoded path is joined to the directory as
\* it stands, ".." and all (what line 33 does for the existence check)
translate_path_unchecked(path) ==
    PathJoin(CwdString, LStripSep(Unquote(BeforeQuery(path))))

translate_path(path) == TranslateNoQuery(BeforeQuery(path))

(***************************************************************************)
(* Responses.  A header value is the sequence of its parts; the Date and   *)
(* Last-Modified headers (clock and mtime) are left out.  file is the      *)
(* filesystem entry whose bytes are the body.                              *)
(***************************************************************************)
Header(k, v) == [k |-> k, v |-> v]
NoResponse == [status |-> 0, kind |-> "none", file |-> <<>>, headers |-> <<>>]

\* header names are case-insensitive on the wire
HeaderKey(k) ==
    IF k \in {"Content-type", "Content-Type"} THEN "content-type" ELSE k
ValuesOf(r, key) ==
    SelectSeq(r.headers, LAMBDA h : HeaderKey(h.k) = key)
HasHeader(r, key) == ValuesOf(r, key) # <<>>

\* SimpleHTTPRequestHandler.guess_type, by the extension of the last name
guess_type(path) ==
    IF Last(path) \in {"index.html"} THEN <<"text/html">>
    ELSE IF Last(path) \in {"sw.js"} THEN <<"text/javascript">>
    ELSE IF Last(path) \in {"manifest.json"} THEN <<"application/json">>
    ELSE <<"application/octet-stream">>

\* BaseHTTPRequestHandler.send_response: the status line and Server header
send_response(status) == <<Header("Server", <<"SimpleHTTP">>)>>

IndexPath == <<Sep, "index.html">>

(***************************************************************************)
(* SPAHandler.end_headers: the headers added, from self.path, to every     *)
(* response just before the blank line.                                    *)
(***************************************************************************)
end_headers(self_path) ==
    (IF EndsWith(self_path, <<Sep, "sw.js">>)
     THEN << Header("Cache-Control", <<"no-cache", "no-store", "must-revalidate">>),
             Header("Pragma", <<"no-cache">>),
             Header("Expires", <<"0">>) >>
     ELSE <<>>)
    \o
    (IF EndsWith(self_path, <<Sep, "manifest.json">>)
     THEN << Header("Content-Type", <<"application/manifest+json">>) >>
     ELSE <<>>)

\* a response: the headers of the delegate, then those of end_headers
Response(status, kind, file, headers, custom) ==
    [status |-> status, kind |-> kind, file |-> file,
     headers |-> send_response(status) \o headers \o custom]

\* send_head's redirect target: urlunsplit of the parts with "/" added to the path
RedirectOf(self_path, rest, path) ==
    SubSeq(self_path, 1, Len(self_path) - Len(rest))
    \o path \o <<Sep>> \o SubSeq(rest, Len(path) + 1, Len(rest))
redirect_location(self_path) ==
    RedirectOf(self_path, AfterNetloc(self_path), UrlsplitPath(self_path))

\* SimpleHTTPRequestHandler.send_head and the copy of the file that
\* SimpleHTTPRequestHandler.do_GET makes, given the results of its stat
\* calls: of the translated path, of its index.html and of its index.htm.
\* An error page is BaseHTTPRequestHandler.send_error's.
SendHeadOf(url_path, location, path, st, index_st, htm_st, custom) ==
    IF isdir(st) /\ ~EndsWith(url_path, <<Sep>>)
    THEN Response(301, "redirect", <<>>,
                  << Header("Location", location),
                     Header("Content-Length", <<"0">>) >>, custom)
    ELSE IF isdir(st) /\ ~isfile(index_st) /\ ~isfile(htm_st)
    THEN \* list_directory
         Response(200, "listing", st,
                  << Header("Content-type", <<"text/html; charset=utf-8">>),
                     Header("Content-Length", <<"listing">>) >>, custom)
    ELSE IF isdir(st)
    THEN Response(200, "file", IF isfile(index_st) THEN index_st ELSE htm_st,
                  << Header("Content-type", <<"text/html">>),
                     Header("Content-Length", <<"size">>) >>, custom)
    ELSE IF EndsWith(path, <<Sep>>) \/ ~isfile(st)
    THEN Response(404, "error", <<>>,
                  << Header("Connection", <<"close">>),
                     Header("Content-Type", <<"text/html;charset=utf-8">>),
                     Header("Content-Length", <<"size">>) >>, custom)
    ELSE Response(200, "file", st,
                  << Header("Content-type", guess_type(path)),
                     Header("Content-Length", <<"size">>) >>, custom)

SendHeadAt(self_path, path) ==
    SendHeadOf(UrlsplitPath(self_path), redirect_location(self_path), path,
               Stat(path), Stat(PathJoin(path, <<"index.html">>)),
               Stat(PathJoin(path, <<"index.htm">>)), end_headers(self_path))

send_head(self_path) == SendHeadAt(self_path, translate_path(self_path))

(***************************************************************************)
(* SPAHandler.do_GET.                                                      *)
(***************************************************************************)
\* lines 25-30: the leading "/" is removed, the empty path is index.html
StripLead(p) == IF StartsWith(p, <<Sep>>) THEN Tail(p) ELSE p
OrIndex(p) == IF p = <<>> THEN <<"index.html">> ELSE p

\* lines 21-30: the relative path the existence check is made on
check_path(self_path) == OrIndex(StripLead(Unquote(UrlparsePath(self_path))))

\* line 33
full_path(self_path) == PathJoin(CwdString, check_path(self_path))

\* lines 36-53: the branch taken, given stat of full_path and of index_path
BranchOf(st, index_st) ==
    IF exists(st) /\ isfile(st) THEN "file"
    ELSE IF exists(st) /\ isdir(st)
         THEN IF exists(index_st) THEN "dir_index" ELSE "dir_fallback"
    ELSE "fallback"
BranchAt(fp) == BranchOf(Stat(fp), Stat(PathJoin(fp, <<"index.html">>)))
Branch(self_path) == BranchAt(full_path(self_path))

\* self.path as the delegated super().do_GET() sees it (lines 38, 45, 48, 52)
Rewrite(self_path, branch) ==
    IF branch \in {"file", "dir_index"} THEN self_path ELSE IndexPath
rewritten_path(self_path) == Rewrite(self_path, Branch(self_path))

\* line 21 raises: the handler ends without a response
do_GET_raises(self_path) == UrlsplitRaises(self_path)

do_GET(self_path) ==
    IF do_GET_raises(self_path) THEN NoResponse
    ELSE send_head(rewritten_path(self_path))

(***************************************************************************)
(* Request targets a client can send.                                      *)
(***************************************************************************)
SegTokens == { Par, EncPar, "srv", "root", "secret", "settings",
               "index.html", "sw.js", "manifest.json", "docs", "img" }
\* origin-form, absolute-form, absolute-form with a malformed IPv6 host
Prefixes == { <<>>, <<"http:", Sep, Sep, "host">>, <<"http:", Sep, Sep, "[::1">> }
Leads == { <<Sep>>, <<Sep, EncSep>> }
Suffixes == { <<>>, <<Qm, "v=2">>, <<Semi, "v=2">> }

SegLists(n) == UNION { [1..k -> SegTokens] : k \in 0..n }

TargetOf(pre, lead, segs, trail, suf) ==
    pre \o lead \o Join([i \in 1..Len(segs) |-> <<segs[i]>>])
        \o (IF trail THEN <<Sep>> ELSE <<>>) \o suf

Targets ==
    { TargetOf(pre, lead, segs, trail, suf) :
        pre \in Prefixes, lead \in Leads, segs \in SegLists(MaxSegs),
        trail \in BOOLEAN, suf \in Suffixes }

\* the requests a run of the whole server replays
HistTokens == { "sw.js", "docs", "secret" }
HistLists(n) == UNION { [1..k -> HistTokens] : k \in 0..n }
HistTargets ==
    { TargetOf(pre, <<Sep>>, segs, FALSE, suf) :
        pre \in { <<>>, <<"http:", Sep, Sep, "[::1">> },
        segs \in HistLists(HistSegs), suf \in Suffixes }

\* BaseHTTPRequestHandler.parse_request: self.path is the request target,
\* with a leading run of "/" reduced to one
parse_request(target) ==
    IF StartsWith(target, <<Sep, Sep>>) THEN <<Sep>> \o LStripSep(target) ELSE target

(***************************************************************************)
(* The server process.                                                     *)
(***************************************************************************)
VARIABLES
    pc,                \* where run_server's thread is
    is_shut_down,      \* BaseServer.__is_shut_down (a threading.Event)
    shutdown_request,  \* BaseServer.__shutdown_request
    listening,         \* the listening socket is open
    exit_status,       \* "running", or the process's exit status
    interrupted_at,    \* pc when KeyboardInterrupt was raised, "none" before
    target,            \* request target of the current (last) connection
    path,              \* self.path of the handler of that connection
    resp,              \* the response written on that connection
    raised,            \* the handler of that connection raised
    memo,              \* a remembered target and the response it got
    between            \* what happened to the requests answered since then

vars == << pc, is_shut_down, shutdown_request, listening, exit_status,
           interrupted_at, target, path, resp, raised, memo, between >>

server == << is_shut_down, shutdown_request, listening, exit_status, interrupted_at >>
connection == << target, path, resp, raised >>
history == << memo, between >>

NoMemo == [target |-> <<>>, resp |-> NoResponse]

\* line 76: the server is constructed and bound, the with-block entered
Init ==
    /\ pc = "run"
    /\ is_shut_down = FALSE
    /\ shutdown_request = FALSE
    /\ listening = TRUE
    /\ exit_status = "running"
    /\ interrupted_at = "none"
    /\ target = <<>>
    /\ path = <<>>
    /\ resp = NoResponse
    /\ raised = FALSE
    /\ memo = NoMemo
    /\ between = {}

\* lines 88-89: httpd.serve_forever() is called
ServeForever ==
    /\ pc = "run"
    /\ pc' = "sf_entry"
    /\ UNCHANGED << server, connection, history >>

\* serve_forever clears the event, enters its try block and polls
SfStart ==
    /\ pc = "sf_entry"
    /\ is_shut_down' = FALSE
    /\ pc' = "serving"
    /\ UNCHANGED << shutdown_request, listening, exit_status, interrupted_at,
                    connection, history >>

\* HandleRequest gone wrong: the handler object is kept from one connection
\* to the next, and a self.path that was rewritten is not parsed again
HandleRequestStale(t) ==
    /\ pc = "serving"
    /\ ~shutdown_request
    /\ target' = t
    /\ path' = IF path = IndexPath THEN path ELSE parse_request(t)
    /\ resp' = NoResponse
    /\ raised' = FALSE
    /\ pc' = "handling"
    /\ UNCHANGED << server, history >>

\* a connection is accepted: a new SPAHandler parses the request line
HandleRequest(t) ==
    /\ pc = "serving"
    /\ ~shutdown_request
    /\ target' = t
    /\ path' = parse_request(t)
    /\ resp' = NoResponse
    /\ raised' = FALSE
    /\ pc' = "handling"
    /\ UNCHANGED << server, history >>

\* what happens to the request of a handler whose self.path is self_path
Outcome(self_path) ==
    IF do_GET_raises(self_path) THEN {"raised"}
    ELSE (IF rewritten_path(self_path) # self_path THEN {"rewritten"} ELSE {})
         \cup (IF do_GET(self_path).status >= 400 THEN {"error"} ELSE {})

\* lines 18-53, through end_headers (55-67): the handler answers, or raises
\* and the server's handle_error drops the connection
DoGET ==
    /\ pc = "handling"
    /\ resp' = do_GET(path)
    /\ raised' = do_GET_raises(path)
    /\ path' = IF do_GET_raises(path) THEN path ELSE rewritten_path(path)
    /\ pc' = "serving"
    /\ between' = IF memo = NoMemo THEN between ELSE between \cup Outcome(path)
    /\ UNCHANGED << target, server, memo >>

\* Ctrl+C: KeyboardInterrupt is raised in the main thread.  Inside
\* serve_forever's try block its finally clause runs on the way out; the
\* except clause of line 90 catches it.
KeyboardInterrupt ==
    /\ pc \in {"run", "sf_entry", "serving", "handling"}
    /\ interrupted_at' = pc
    /\ IF pc \in {"serving", "handling"}
       THEN shutdown_request' = FALSE /\ is_shut_down' = TRUE
       ELSE UNCHANGED << shutdown_request, is_shut_down >>
    /\ pc' = "except"
    /\ UNCHANGED << listening, exit_status, connection, history >>

\* lines 91-92: httpd.shutdown() sets the request flag and waits for the event
Shutdown ==
    /\ pc = "except"
    /\ shutdown_request' = TRUE
    /\ pc' = "shutdown_wait"
    /\ UNCHANGED << is_shut_down, listening, exit_status, interrupted_at,
                    connection, history >>

\* the wait of shutdown() returns once the event is set
ShutdownReturns ==
    /\ pc = "shutdown_wait"
    /\ is_shut_down
    /\ pc' = "with_exit"
    /\ UNCHANGED << server, connection, history >>

\* line 76: the with-block is left, server_close() closes the socket;
\* run_server returns and the process exits with status 0
ServerClose ==
    /\ pc = "with_exit"
    /\ listening' = FALSE
    /\ exit_status' = "0"
    /\ pc' = "exited"
    /\ UNCHANGED << is_shut_down, shutdown_request, interrupted_at, connection, history >>

\* the server has answered a request: its target and response are remembered
Remember ==
    /\ pc = "serving"
    /\ target # <<>>
    /\ memo = NoMemo
    /\ memo' = [target |-> target, resp |-> resp]
    /\ UNCHANGED << pc, server, connection, between >>

Next ==
    \/ ServeForever
    \/ SfStart
    \/ \E t \in HistTargets : HandleRequest(t)
    \/ DoGET
    \/ Remember
    \/ KeyboardInterrupt
    \/ Shutdown
    \/ ShutdownReturns
    \/ ServerClose

Spec == Init /\ [][Next]_vars

(***************************************************************************)
(* SpecGet: one request, of any target, accepted by the serving server     *)
(* and answered by do_GET.                                                 *)
(***************************************************************************)
InitGet ==
    /\ pc = "handling"
    /\ is_shut_down = FALSE
    /\ shutdown_request = FALSE
    /\ listening = TRUE
    /\ exit_status = "running"
    /\ interrupted_at = "none"
    /\ target \in Targets
    /\ path = parse_request(target)
    /\ resp = NoResponse
    /\ raised = FALSE
    /\ memo = NoMemo
    /\ between = {}

NextGet == DoGET

SpecGet == InitGet /\ [][NextGet]_vars

(***************************************************************************)
(* Properties.                                                             *)
(***************************************************************************)
RootIndex == Cwd \o <<"index.html">>

\* an entry of the document root: the root itself or a descendant
InRoot(entry) == entry = Cwd \/ (UnderRoot(entry) /\ entry \in Dirs \cup Files)

\* the entry do_GET's existence check (line 36) finds for a request target
CheckEntry(t) == Stat(full_path(parse_request(t)))
\* the entry the delegated file server translates the request target to
ServedEntry(t) == Stat(translate_path(parse_request(t)))

\* the request of the current connection has been handled
Answered == pc = "serving" /\ target # <<>>

\* the response is the file at entry, with status 200
Serves(entry) == resp.status = 200 /\ resp.kind = "file" /\ resp.file = entry

\* C1: a request whose path does not exist under the document root,
\* neither as the existence check resolves it nor as the file server
\* translates it, is answered with the root index.html and status 200.
C1_MissingPathFallsBack ==
    (Answered /\ ~raised /\ ~InRoot(CheckEntry(target)) /\ ~InRoot(ServedEntry(target)))
        => Serves(RootIndex)

\* C2: a request whose path the existence check resolves to a regular file
\* under the document root is answered with that file.
C2_ExistingFileServed ==
    (Answered /\ ~raised /\ CheckEntry(target) \in Files /\ UnderRoot(CheckEntry(target)))
        => Serves(CheckEntry(target))

\* C3: a request whose path names a directory of the document root is
\* answered with that directory's index.html if it has one, and with the
\* root index.html otherwise, with or without a trailing slash.
C3_DirectoryIndexOrFallback ==
    (Answered /\ ~raised /\ CheckEntry(target) \in Dirs /\ InRoot(CheckEntry(target)))
        => IF (CheckEntry(target) \o <<"index.html">>) \in Files
           THEN Serves(CheckEntry(target) \o <<"index.html">>)
           ELSE Serves(RootIndex)

\* C4: whatever the request target, the file (or directory listing) whose
\* bytes are returned is an entry of the document root.
C4_ServedUnderRoot ==
    Answered => (resp.kind \in {"file", "listing"} => InRoot(resp.file))

\* C4 witness: the existence check was made on an entry outside the
\* document root, and a file was returned.
C4_CheckedOutsideRoot ==
    /\ Answered
    /\ exists(CheckEntry(target))
    /\ ~InRoot(CheckEntry(target))
    /\ resp.kind = "file"

\* C5: every response that serves the file sw.js carries a Cache-Control
\* header containing no-store.
C5_ServiceWorkerNoStore ==
    (Answered /\ resp.kind = "file" /\ Last(resp.file) = "sw.js")
        => \E i \in 1..Len(resp.headers) :
              /\ resp.headers[i].k = "Cache-Control"
              /\ "no-store" \in Range(resp.headers[i].v)

\* C6: every response that serves the file manifest.json has exactly one
\* Content-Type header, application/manifest+json.
C6_ManifestContentType ==
    (Answered /\ resp.kind = "file" /\ Last(resp.file) = "manifest.json")
        => /\ Len(ValuesOf(resp, "content-type")) = 1
           /\ ValuesOf(resp, "content-type")[1].v = <<"application/manifest+json">>

\* C7: every response carries Access-Control-Allow-Origin: * together with
\* Access-Control-Allow-Methods and Access-Control-Allow-Headers.
C7_CorsOnEveryResponse ==
    (Answered /\ resp.kind # "none")
        => /\ \E i \in 1..Len(resp.headers) :
                resp.headers[i] = Header("Access-Control-Allow-Origin", <<"*">>)
           /\ HasHeader(resp, "Access-Control-Allow-Methods")
           /\ HasHeader(resp, "Access-Control-Allow-Headers")

\* C8: after a KeyboardInterrupt raised while the thread was inside
\* serve_forever, the wait of httpd.shutdown() does not block: whenever the
\* thread is in that wait, the event it waits for is set.
InsideServeForever == {"sf_entry", "serving", "handling"}
C8_ShutdownReturns ==
    (pc = "shutdown_wait" /\ interrupted_at \in InsideServeForever) => is_shut_down

\* C9: no request target makes the handler raise: every request that was
\* handled got a response.
C9_AlwaysOneResponse ==
    Answered => (~raised /\ resp.kind # "none")

=============================================================================
